---- MODULE Spec2Model ----
(***************************************************************************)
(* Model of bot.js: the interactionCreate handler of the Discord bot       *)
(* (ping / watch), its three network calls, the link extraction loops,     *)
(* the relevance filter, the embed construction and truncateString.        *)
(*                                                                         *)
(* A JavaScript string is modelled as a sequence of tokens.  A token is a  *)
(* non-empty piece of text: a single character for labels and titles, a    *)
(* whole literal for the fixed texts of the program (a base URL, a reply   *)
(* text).  The empty string is <<>>, concatenation is \o, .length is Len.  *)
(* An optional value (null / undefined) is <<>> and a present value v is   *)
(* <<v>>.                                                                  *)
(***************************************************************************)
EXTENDS Integers, Sequences, FiniteSets

\* ------------------------------------------------------------------ bounds

\* invocations followed by the handler model
MaxInvocations == 2
\* container elements on a scraped page
MaxPageLen == 2
\* raw candidates handed to the relevance filter (SpecRank)
MaxRaw == 6
\* maximum length argument of truncateString (SpecTrunc), besides TruncLimit
MaxM == 5
\* string length of truncateString's input (SpecTrunc), besides the long ones
MaxStrLen == 8

\* ------------------------------------------------------- program constants

TruncLimit == 100
Cap == 5
PrimewireFirst == 2
PrimewireEnd == 22
FmoviesFirst == 1
FmoviesEnd == 21

\* --------------------------------------------------------- JS string model

Min(a, b) == IF a < b THEN a ELSE b
Max(a, b) == IF a > b THEN a ELSE b

\* String.prototype.slice / Array.prototype.slice(begin, end)
Slice(s, b, e) ==
    LET n == Len(s)
        from == IF b < 0 THEN Max(n + b, 0) ELSE Min(b, n)
        to == IF e < 0 THEN Max(n + e, 0) ELSE Min(e, n)
    IN  IF from >= to THEN <<>> ELSE SubSeq(s, from + 1, to)

Ellipsis == <<".", ".", ".">>

\* function truncateString(str, maxLen)
truncateString(str, maxLen) ==
    IF Len(str) > maxLen THEN Slice(str, 0, maxLen - 3) \o Ellipsis ELSE str

\* String.prototype.toLowerCase, character by character
LowerChar(c) ==
    CASE c = "A" -> "a"
      [] c = "B" -> "b"
      [] c = "C" -> "c"
      [] OTHER -> c

toLowerCase(s) == [i \in 1..Len(s) |-> LowerChar(s[i])]

\* String.prototype.includes
includes(h, n) ==
    \E i \in 0..(Len(h) - Len(n)) : SubSeq(h, i + 1, i + Len(n)) = n

IsSpace(c) == c = " "

RECURSIVE trimStart(_)
trimStart(s) ==
    IF s # <<>> /\ IsSpace(Head(s)) THEN trimStart(Tail(s)) ELSE s

RECURSIVE trimEnd(_)
trimEnd(s) ==
    IF s # <<>> /\ IsSpace(s[Len(s)]) THEN trimEnd(SubSeq(s, 1, Len(s) - 1)) ELSE s

\* String.prototype.trim
trim(s) == trimEnd(trimStart(s))

\* template literal `${v}` of an optional string: undefined prints "undefined"
ToString(opt) == IF opt = <<>> THEN <<"undefined">> ELSE opt[1]

\* JS truthiness of a string
Truthy(s) == s # <<>>

\* ------------------------------------------------------ pages and extraction

PrimewireBase == "https://primewire.tf"
FmoviesBase == "https://en.fmoviesz-to.com"

\* What a cheerio selection `<container>:nth-of-type(i) a` gives: .text() and
\* .attr('href') (absent: <<>>, present: <<value>>).
EmptySelection == [text |-> <<>>, href |-> <<>>]

Elements ==
    { [text |-> <<" ", "A", "b", " ">>, href |-> << <<"/m">> >>],
      [text |-> <<"a">>, href |-> <<>>],
      [text |-> <<"a">>, href |-> << <<>> >>],
      [text |-> <<" ">>, href |-> << <<"/m">> >>] }

Pages == UNION { [1..n -> Elements] : n \in 0..MaxPageLen }

\* Source A is read from container 2 on: the first container of its pages is
\* one the loop never looks at.
PrimewirePages == { <<>> } \cup { <<EmptySelection>> \o p : p \in Pages }

select(page, i) == IF i \in 1..Len(page) THEN page[i] ELSE EmptySelection

\* if (mediaLink && mediaTitle)
keepPosition(el, mediaLink, mediaTitle) == Truthy(mediaLink) /\ Truthy(mediaTitle)

\* for (let i = first; i < end; i++) { ... push({ title, link }) }
RECURSIVE extractLinks(_, _, _, _)
extractLinks(page, base, i, end) ==
    IF i >= end THEN <<>>
    ELSE LET mediaLinkElement == select(page, i)
             mediaLink == <<base>> \o ToString(mediaLinkElement.href)
             mediaTitle == trim(mediaLinkElement.text)
         IN  (IF keepPosition(mediaLinkElement, mediaLink, mediaTitle)
              THEN << [title |-> truncateString(mediaTitle, TruncLimit),
                       link |-> mediaLink] >>
              ELSE <<>>)
             \o extractLinks(page, base, i + 1, end)

primewireExtract(page) == extractLinks(page, PrimewireBase, PrimewireFirst, PrimewireEnd)
fmoviesExtract(page) == extractLinks(page, FmoviesBase, FmoviesFirst, FmoviesEnd)

\* ------------------------------------------------------------ the filter

\* link => link.title.toLowerCase().includes(mediaTitle.toLowerCase()) ||
\*         mediaData.Title.toLowerCase().includes(link.title.toLowerCase())
isRelevant(link, mediaTitle, dataTitle) ==
    \/ includes(toLowerCase(link.title), toLowerCase(mediaTitle))
    \/ includes(toLowerCase(dataTitle), toLowerCase(link.title))

\* Array.prototype.filter with the relevance callback
filter(links, mediaTitle, dataTitle) ==
    SelectSeq(links, LAMBDA link : isRelevant(link, mediaTitle, dataTitle))

\* a plausible slip: the cap is applied to the raw list, before the filter
filterLinks_CapFirst(links, mediaTitle, dataTitle) ==
    filter(Slice(links, 0, Cap), mediaTitle, dataTitle)

\* links.filter(...).slice(0, 5)
filterLinks(links, mediaTitle, dataTitle) ==
    Slice(filter(links, mediaTitle, dataTitle), 0, Cap)

\* ------------------------------------------------------------- the embed

NoResults == <<"No results found.">>

\* ({ title, link }) => `[${title}](${link})`
linkEntry(l) == <<"[">> \o l.title \o <<"](">> \o l.link \o <<")">>

\* Array.prototype.join
RECURSIVE join(_, _)
join(strs, sep) ==
    IF strs = <<>> THEN <<>>
    ELSE IF Len(strs) = 1 THEN strs[1]
    ELSE strs[1] \o sep \o join(Tail(strs), sep)

\* a plausible slip: the empty list is rendered like any other
fieldValue_NoPlaceholder(filtered) ==
    join([i \in 1..Len(filtered) |-> linkEntry(filtered[i])], <<"\n">>)

\* the value of a source's field
fieldValue(filtered) ==
    IF Len(filtered) > 0
    THEN join([i \in 1..Len(filtered) |-> linkEntry(filtered[i])], <<"\n">>)
    ELSE NoResults

\* mediaData.Ratings.find(rating => rating.Source === 'Rotten Tomatoes')?.Value || 'N/A'
rottenTomatoes(ratings) ==
    LET hits == SelectSeq(ratings, LAMBDA r : r.Source = "Rotten Tomatoes")
    IN  IF hits # <<>> /\ Truthy(hits[1].Value) THEN hits[1].Value ELSE <<"N/A">>

description(d) ==
    <<"Release Year: ">> \o d.Year \o <<"\nIMDB Rating: ">> \o d.imdbRating
    \o <<"\nRotten Tomatoes Rating: ">> \o rottenTomatoes(d.Ratings)
    \o <<"\n\n">> \o d.Plot

\* new EmbedBuilder()...  and the two addFields
buildEmbed(d, filteredPrimewire, filteredFmovies) ==
    [title |-> d.Title,
     color |-> "0x0099FF",
     description |-> description(d),
     thumbnail |-> d.Poster,
     fields |-> << [name |-> "Top Primewire Results:",
                    value |-> fieldValue(filteredPrimewire)],
                   [name |-> "Top Fmovies Results:",
                    value |-> fieldValue(filteredFmovies)] >>]

\* ------------------------------------------------------------ the handler

VARIABLES
    alive,                  \* the bot process is running
    unhandled,              \* a rejection has escaped an interactionCreate handler
    inv,                    \* invocations received so far
    pc,                     \* where the handler of the current invocation stands
    interaction,            \* the interaction being handled
    netCalls,               \* the axios.get calls of this invocation, in issue order
    mediaData,              \* omdbResponse.data, once assigned
    primewireLinks,         \* once assigned
    fmoviesLinks,           \* once assigned
    filteredPrimewireLinks, \* once assigned
    filteredFmoviesLinks,   \* once assigned
    replies,                \* the interaction.reply calls of this invocation
    replyCtx,               \* where the pending reply was issued from
    args,                   \* SpecTrunc / SpecRank: the inputs of the function
    result                  \* SpecTrunc / SpecRank: its result, once applied

vars ==
    << alive, unhandled, inv, pc, interaction, netCalls, mediaData, primewireLinks,
       fmoviesLinks, filteredPrimewireLinks, filteredFmoviesLinks, replies,
       replyCtx, args, result >>

harness == << args, result >>

\* options.getString('title'): null, "", or a title
Titles == { <<>>, << <<>> >>, << <<"a">> >>, << <<"B">> >> }

Interactions ==
    { [isCommand |-> FALSE, commandName |-> "", title |-> <<>>],
      [isCommand |-> TRUE, commandName |-> "ping", title |-> <<>>],
      [isCommand |-> TRUE, commandName |-> "other", title |-> <<>>] }
    \cup { [isCommand |-> TRUE, commandName |-> "watch", title |-> t] : t \in Titles }

\* the records the metadata API answers with
NotFoundRecord ==
    [Response |-> "False", Title |-> <<>>, Year |-> <<>>, imdbRating |-> <<>>,
     Ratings |-> <<>>, Plot |-> <<>>, Poster |-> <<>>]

FoundRecords ==
    { [Response |-> "True", Title |-> <<"A", "b">>, Year |-> <<"2010">>,
       imdbRating |-> <<"8.8">>,
       Ratings |-> << [Source |-> "Rotten Tomatoes", Value |-> <<"87%">>] >>,
       Plot |-> <<"plot">>, Poster |-> <<"poster">>],
      [Response |-> "True", Title |-> <<"C">>, Year |-> <<"1999">>,
       imdbRating |-> <<"N/A">>,
       Ratings |-> << [Source |-> "Internet Movie Database", Value |-> <<"7.0/10">>] >>,
       Plot |-> <<"plot">>, Poster |-> <<"poster">>] }

MediaRecords == {NotFoundRecord} \cup FoundRecords

Text(t) == [kind |-> "text", text |-> t, embeds |-> <<>>]
Embed(e) == [kind |-> "embed", text |-> "", embeds |-> <<e>>]

Pong == Text("Pong!")
ProvideTitle == Text("Please provide a movie or TV show title.")
MediaNotFound == Text("Media not found.")
ErrorOccurred == Text("An error occurred while fetching media data.")

Fresh ==
    /\ netCalls' = <<>>
    /\ mediaData' = <<>>
    /\ primewireLinks' = <<>>
    /\ fmoviesLinks' = <<>>
    /\ filteredPrimewireLinks' = <<>>
    /\ filteredFmoviesLinks' = <<>>

Data == << mediaData, primewireLinks, fmoviesLinks, filteredPrimewireLinks,
           filteredFmoviesLinks >>

\* await interaction.reply(content), issued from ctx
Reply(content, ctx) ==
    /\ replies' = Append(replies, [content |-> content, status |-> "pending"])
    /\ replyCtx' = ctx
    /\ pc' = "awaitReply"

\* the call being awaited has not settled
Pending == netCalls # <<>> /\ netCalls[Len(netCalls)].status = "pending"

Settle(calls, status) == [calls EXCEPT ![Len(calls)].status = status]

\* catch (error) { console.error(...); await interaction.reply('An error ...') }
Catch == Reply(ErrorOccurred, "catch")

\* a plausible slip: only null is taken as a missing title
titleMissing_NullOnly(t) == t = <<>>

\* !mediaTitle
titleMissing(t) == t = <<>> \/ ~Truthy(t[1])

\* a plausible slip: another spelling of the sentinel
lookupNotFound_Spelling(d) == d.Response = "false"

\* mediaData.Response === 'False'
lookupNotFound(d) == d.Response = "False"

\* a plausible slip: the markup parse is done outside the try block's reach
throws_ParseIgnored(outcome) == outcome = "rejected"

\* the awaited call rejects, or cheerio.load throws on the response data
throws(outcome) == outcome \in {"rejected", "parseError"}

HandlerIdle ==
    /\ alive = TRUE
    /\ unhandled = FALSE
    /\ inv = 0
    /\ pc = "idle"
    /\ interaction = [isCommand |-> FALSE, commandName |-> "", title |-> <<>>]
    /\ netCalls = <<>>
    /\ mediaData = <<>>
    /\ primewireLinks = <<>>
    /\ fmoviesLinks = <<>>
    /\ filteredPrimewireLinks = <<>>
    /\ filteredFmoviesLinks = <<>>
    /\ replies = <<>>
    /\ replyCtx = "none"

HandlerVars ==
    << alive, unhandled, inv, pc, interaction, netCalls, Data, replies, replyCtx >>

Init ==
    /\ HandlerIdle
    /\ args = <<>>
    /\ result = <<>>

\* client.on('interactionCreate', async interaction => { ... up to the first await
interactionCreate(i) ==
    /\ alive
    /\ pc \in {"idle", "done"}
    /\ inv < MaxInvocations
    /\ inv' = inv + 1
    /\ interaction' = i
    /\ IF ~i.isCommand
       THEN /\ Fresh
            /\ pc' = "done"
            /\ replies' = <<>>
            /\ replyCtx' = "none"
       ELSE IF i.commandName = "ping"
       THEN /\ Fresh
            /\ replies' = << [content |-> Pong, status |-> "pending"] >>
            /\ replyCtx' = "ping"
            /\ pc' = "awaitReply"
       ELSE IF i.commandName = "watch"
       THEN IF titleMissing(i.title)
            THEN /\ Fresh
                 /\ replies' = << [content |-> ProvideTitle, status |-> "pending"] >>
                 /\ replyCtx' = "validation"
                 /\ pc' = "awaitReply"
            ELSE /\ netCalls' = << [target |-> "omdb", status |-> "pending"] >>
                 /\ pc' = "omdb"
                 /\ mediaData' = <<>>
                 /\ primewireLinks' = <<>>
                 /\ fmoviesLinks' = <<>>
                 /\ filteredPrimewireLinks' = <<>>
                 /\ filteredFmoviesLinks' = <<>>
                 /\ replies' = <<>>
                 /\ replyCtx' = "none"
       ELSE /\ Fresh
            /\ pc' = "done"
            /\ replies' = <<>>
            /\ replyCtx' = "none"
    /\ UNCHANGED << alive, unhandled, harness >>

Receive == \E i \in Interactions : interactionCreate(i)

\* the metadata call settles: lines 60-70
omdbSettles(outcome, data) ==
    /\ pc = "omdb"
    /\ Pending
    /\ IF throws(outcome)
       THEN /\ netCalls' = Settle(netCalls, outcome)
            /\ Catch
            /\ UNCHANGED Data
       ELSE /\ mediaData' = <<data>>
            /\ UNCHANGED << primewireLinks, fmoviesLinks, filteredPrimewireLinks,
                            filteredFmoviesLinks >>
            /\ IF lookupNotFound(data)
               THEN /\ netCalls' = Settle(netCalls, outcome)
                    /\ Reply(MediaNotFound, "try")
               ELSE /\ netCalls' = Append(Settle(netCalls, outcome),
                                          [target |-> "primewire", status |-> "pending"])
                    /\ pc' = "primewire"
                    /\ UNCHANGED << replies, replyCtx >>
    /\ UNCHANGED << alive, unhandled, inv, interaction, harness >>

OmdbResponds ==
    \/ omdbSettles("rejected", NotFoundRecord)
    \/ \E data \in MediaRecords : omdbSettles("ok", data)

\* the source A call settles: lines 70-86
primewireSettles(outcome, page) ==
    /\ pc = "primewire"
    /\ Pending
    /\ IF throws(outcome)
       THEN /\ netCalls' = Settle(netCalls, outcome)
            /\ Catch
            /\ UNCHANGED Data
       ELSE /\ primewireLinks' = << primewireExtract(page) >>
            /\ netCalls' = Append(Settle(netCalls, outcome),
                                  [target |-> "fmovies", status |-> "pending"])
            /\ pc' = "fmovies"
            /\ UNCHANGED << mediaData, fmoviesLinks, filteredPrimewireLinks,
                            filteredFmoviesLinks, replies, replyCtx >>
    /\ UNCHANGED << alive, unhandled, inv, interaction, harness >>

PrimewireResponds ==
    \/ \E outcome \in {"rejected", "parseError"} : primewireSettles(outcome, <<>>)
    \/ \E page \in PrimewirePages : primewireSettles("ok", page)

\* the source B call settles: lines 86-124
fmoviesSettles(outcome, page) ==
    /\ pc = "fmovies"
    /\ Pending
    /\ netCalls' = Settle(netCalls, outcome)
    /\ IF throws(outcome)
       THEN /\ Catch
            /\ UNCHANGED Data
       ELSE LET links == fmoviesExtract(page)
                mediaTitle == interaction.title[1]
                data == mediaData[1]
                fp == filterLinks(primewireLinks[1], mediaTitle, data.Title)
                ff == filterLinks(links, mediaTitle, data.Title)
            IN  /\ fmoviesLinks' = <<links>>
                /\ filteredPrimewireLinks' = <<fp>>
                /\ filteredFmoviesLinks' = <<ff>>
                /\ Reply(Embed(buildEmbed(data, fp, ff)), "try")
                /\ UNCHANGED << mediaData, primewireLinks >>
    /\ UNCHANGED << alive, unhandled, inv, interaction, harness >>

FmoviesResponds ==
    \/ \E outcome \in {"rejected", "parseError"} : fmoviesSettles(outcome, <<>>)
    \/ \E page \in Pages : fmoviesSettles("ok", page)

\* the pending interaction.reply settles
replySettles(ok) ==
    /\ pc = "awaitReply"
    /\ LET settled == [replies EXCEPT ![Len(replies)].status =
                                          IF ok THEN "sent" ELSE "failed"]
       IN  IF ok
           THEN /\ replies' = settled
                /\ pc' = "done"
                /\ UNCHANGED << replyCtx, alive, unhandled >>
           ELSE IF replyCtx = "try"
           THEN \* the rejection is thrown inside the try block
                /\ replies' = Append(settled, [content |-> ErrorOccurred,
                                              status |-> "pending"])
                /\ replyCtx' = "catch"
                /\ pc' = "awaitReply"
                /\ UNCHANGED << alive, unhandled >>
           ELSE \* ping, validation, catch: nothing catches the rejection; whether
                \* the process survives it depends on the runtime's
                \* unhandled-rejection mode
                /\ replies' = settled
                /\ pc' = "done"
                /\ unhandled' = TRUE
                /\ alive' \in BOOLEAN
                /\ UNCHANGED replyCtx
    /\ UNCHANGED << inv, interaction, netCalls, Data, harness >>

ReplySettles == \E ok \in BOOLEAN : replySettles(ok)

\* The server never answers the call being awaited.  axios.get is called with
\* the URL alone (no timeout option, and axios' default timeout is 0: none), so
\* nothing in the program settles the call afterwards.
NetworkSilent ==
    /\ pc \in {"omdb", "primewire", "fmovies"}
    /\ Pending
    /\ netCalls' = Settle(netCalls, "silent")
    /\ UNCHANGED << alive, unhandled, inv, pc, interaction, Data, replies, replyCtx,
                    harness >>

Next ==
    \/ Receive
    \/ OmdbResponds
    \/ PrimewireResponds
    \/ FmoviesResponds
    \/ ReplySettles
    \/ NetworkSilent

Spec == Init /\ [][Next]_vars

\* The event loop runs a handler's continuation once the awaited promise has
\* settled, and a server that is going to answer does answer.
FairSpec == Spec /\ WF_vars(Next)

\* ------------------------------------------- truncateString on its own

StrOfLen(n) == [i \in 1..n |-> IF i % 2 = 1 THEN "a" ELSE "b"]

TruncInputs ==
    { StrOfLen(n) : n \in (0..MaxStrLen) \cup ((TruncLimit - 1)..(TruncLimit + 2)) }

TruncLens == (0..MaxM) \cup {TruncLimit}

InitTrunc ==
    /\ HandlerIdle
    /\ args \in [str : TruncInputs, maxLen : TruncLens]
    /\ result = <<>>

ApplyTruncate ==
    /\ result = <<>>
    /\ result' = << truncateString(args.str, args.maxLen) >>
    /\ UNCHANGED << args, HandlerVars >>

NextTrunc == ApplyTruncate

SpecTrunc == InitTrunc /\ [][NextTrunc]_vars

\* ------------------------------------------- the relevance filter on its own

\* raw candidates as the extraction loops produce them: trimmed, non-empty labels
RawCandidates ==
    { [title |-> <<"A", "b">>, link |-> <<PrimewireBase, "/1">>],
      [title |-> <<"c">>, link |-> <<PrimewireBase, "/2">>],
      [title |-> <<"d">>, link |-> <<PrimewireBase, "/3">>] }

RawLists == UNION { [1..n -> RawCandidates] : n \in 0..MaxRaw }

QueryTitles == { <<"a">>, <<"D">> }

CanonicalTitles == { <<"A", "b">>, <<"C">> }

InitRank ==
    /\ HandlerIdle
    /\ args \in [links : RawLists, mediaTitle : QueryTitles, dataTitle : CanonicalTitles]
    /\ result = <<>>

ApplyRank ==
    /\ result = <<>>
    /\ result' = << filterLinks(args.links, args.mediaTitle, args.dataTitle) >>
    /\ UNCHANGED << args, HandlerVars >>

NextRank == ApplyRank

SpecRank == InitRank /\ [][NextRank]_vars

\* ------------------------------------------------------------ properties

IsWatch == interaction.isCommand /\ interaction.commandName = "watch"
IsPing == interaction.isCommand /\ interaction.commandName = "ping"

CallFailed(i) == netCalls[i].status \in {"rejected", "parseError"}

\* C1: every ping or watch invocation ends with exactly one interaction.reply
\* call made for it: never none, and never a second one after a first one was
\* attempted, whatever the outcome of its steps.
C1_ExactlyOneReply ==
    (pc = "done" /\ (IsPing \/ IsWatch)) => Len(replies) = 1

\* C2: once the metadata lookup of a watch request has returned Response
\* "False", the handler replies "Media not found." (and nothing else once that
\* reply is sent), goes straight to replying, never issues a scrape call to
\* source A or source B, and never extracts or ranks anything.
C2_NotFoundShortCircuits ==
    (mediaData # <<>> /\ mediaData[1].Response = "False") =>
        /\ pc \in {"awaitReply", "done"}
        /\ replies # <<>>
        /\ replies[1].content = Text("Media not found.")
        /\ (Len(replies) > 1 => replies[1].status = "failed")
        /\ \A i \in 1..Len(netCalls) : netCalls[i].target = "omdb"
        /\ primewireLinks = <<>> /\ fmoviesLinks = <<>>
        /\ filteredPrimewireLinks = <<>> /\ filteredFmoviesLinks = <<>>

C2_Witness ==
    /\ pc = "done"
    /\ mediaData # <<>> /\ mediaData[1].Response = "False"
    /\ replies = << [content |-> Text("Media not found."), status |-> "sent"] >>
    /\ Len(netCalls) = 1

\* C3: a watch request whose title is missing (null) or the empty string is
\* answered with the validation message, and only with it, and issues no
\* network call at all.
C3_MissingTitleNoNetwork ==
    (pc # "idle" /\ IsWatch /\ interaction.title \in { <<>>, << <<>> >> }) =>
        /\ netCalls = <<>>
        /\ mediaData = <<>>
        /\ Len(replies) = 1
        /\ replies[1].content = Text("Please provide a movie or TV show title.")

C3_Witness ==
    /\ pc = "done"
    /\ IsWatch
    /\ interaction.title = << <<>> >>
    /\ replies = << [content |-> Text("Please provide a movie or TV show title."),
                     status |-> "sent"] >>
    /\ netCalls = <<>>

\* C4: in a watch request each of the three network calls is issued at most
\* once, and once one of them fails (the call rejects or the markup parse
\* throws) it is the last call of the request, the only reply made is the
\* generic error message, and nothing is ranked and no embed is built.
C4_FailureAborts ==
    /\ \A i, j \in 1..Len(netCalls) :
           netCalls[i].target = netCalls[j].target => i = j
    /\ \A i \in 1..Len(netCalls) :
           CallFailed(i) =>
               /\ i = Len(netCalls)
               /\ pc \in {"awaitReply", "done"}
               /\ Len(replies) = 1
               /\ replies[1].content = Text("An error occurred while fetching media data.")
               /\ filteredPrimewireLinks = <<>> /\ filteredFmoviesLinks = <<>>

C4_Witness ==
    /\ pc = "done"
    /\ Len(netCalls) = 2
    /\ netCalls[1].status = "ok"
    /\ netCalls[2] = [target |-> "primewire", status |-> "parseError"]
    /\ replies = << [content |-> Text("An error occurred while fetching media data."),
                     status |-> "sent"] >>

\* the claim's relevance of a candidate
C5_Relevant(c, q, t) ==
    \/ includes(toLowerCase(c.title), toLowerCase(q))
    \/ includes(toLowerCase(t), toLowerCase(c.title))

C5_RelevantUpTo(i) ==
    { m \in 1..i : C5_Relevant(args.links[m], args.mediaTitle, args.dataTitle) }

C6_Candidates ==
    LET lists == primewireLinks \o fmoviesLinks \o filteredPrimewireLinks
                 \o filteredFmoviesLinks
    IN  UNION { { lists[n][i] : i \in 1..Len(lists[n]) } : n \in 1..Len(lists) }

\* C6: no candidate of a raw or ranked list has an empty label, or a URL that
\* is the base prefix alone or the prefix followed by no path of the page.
C6_NoMalformedCandidate ==
    \A c \in C6_Candidates :
        /\ c.title # <<>>
        /\ Len(c.link) = 2
        /\ c.link[1] \in {PrimewireBase, FmoviesBase}
        /\ c.link[2] # "undefined"

\* C7: no failure escapes an interactionCreate handler uncaught and the bot
\* process keeps running.
C7_NothingEscapes == ~unhandled /\ alive

\* C8: a watch request that has issued a network call eventually reaches the
\* end of its handler with a reply made.
C8_EventuallyDone ==
    (pc \in {"omdb", "primewire", "fmovies"}) ~> (pc = "done" /\ replies # <<>>)

C9_Entry(c) == <<"[">> \o c.title \o <<"](">> \o c.link \o <<")">>

RECURSIVE C9_Lines(_)
C9_Lines(list) ==
    IF Len(list) = 1 THEN C9_Entry(list[1])
    ELSE C9_Lines(SubSeq(list, 1, Len(list) - 1)) \o <<"\n">> \o C9_Entry(list[Len(list)])

C9_Section(field, name, ranked) ==
    /\ field.name = name
    /\ field.value # <<>>
    /\ IF ranked = <<>> THEN field.value = <<"No results found.">>
       ELSE field.value = C9_Lines(ranked)

\* C9: when the lookup succeeded and both scrapes returned and were parsed,
\* the handler replies with an embed of exactly two sections, source A then
\* source B; a section whose ranked list is empty reads "No results found."
\* and one whose ranked list is not renders its candidates, one per line, in
\* ranked order.
C9_TwoSections ==
    (Len(netCalls) = 3 /\ \A i \in 1..3 : netCalls[i].status = "ok") =>
        /\ mediaData # <<>> /\ mediaData[1].Response = "True"
        /\ filteredPrimewireLinks # <<>> /\ filteredFmoviesLinks # <<>>
        /\ replies # <<>>
        /\ replies[1].content.kind = "embed"
        /\ LET fields == replies[1].content.embeds[1].fields
           IN  /\ Len(fields) = 2
               /\ C9_Section(fields[1], "Top Primewire Results:",
                             filteredPrimewireLinks[1])
               /\ C9_Section(fields[2], "Top Fmovies Results:",
                             filteredFmoviesLinks[1])

C9_Witness ==
    /\ pc = "done"
    /\ Len(netCalls) = 3 /\ \A i \in 1..3 : netCalls[i].status = "ok"
    /\ filteredPrimewireLinks = << <<>> >>
    /\ Len(filteredFmoviesLinks[1]) = 2
    /\ replies[1].status = "sent"
    /\ replies[1].content.kind = "embed"
    /\ replies[1].content.embeds[1].fields[1].value = <<"No results found.">>

\* C10: truncateString(s, m) returns s when len(s) <= m and otherwise a string
\* of at most m characters, of exactly 100 characters ending in "..." for
\* m = 100; for m <= 3 the result has 3 characters or fewer.
C10_Truncate ==
    result # <<>> =>
        LET s == args.str
            m == args.maxLen
            r == result[1]
        IN  /\ Len(s) <= m => r = s
            /\ Len(s) > m => Len(r) <= m
            /\ (Len(s) > m /\ m = 100) =>
                   (Len(r) = 100 /\ SubSeq(r, 98, 100) = <<".", ".", ".">>)
            /\ m <= 3 => Len(r) <= 3

====
